---- MODULE Spec2Model ----
(***************************************************************************)
(* The paged README confirmation prompt of oneoff/update-llm-tags.py:      *)
(* get_key_press, display_readme and the batch loop                        *)
(* display_and_confirm_repos, as one sequential process.  pc is the        *)
(* position of that process in the code.                                   *)
(***************************************************************************)
EXTENDS Integers, Sequences, FiniteSets, TLC

\* ---------------------------------------------------------------- bounds
\* Longest list of repositories handed to display_and_confirm_repos.
MaxItems == 2
\* Largest number of text lines in a README body (65 gives three pages).
MaxLines == 65
\* Longest list of repositories get_no_library_repos hands to dry_run.
MaxRepos == 2

\* ------------------------------------------------------ program constants
\* lines_per_page = 30
lines_per_page == 30

\* A README body is a sequence of tokens: NL is the character "\n", a
\* positive number j is a run of characters without a newline (the text
\* of the j-th line).
NL == 0

\* The characters sys.stdin.read(1) can return.  EOF is the empty string
\* read(1) returns at end of input; KeyOther is any key the prompt does
\* not name.
CtrlC == "^C"
CtrlBackslash == "^\\"
EOF == ""
KeyOther == "x"
Keys == {"y", "Y", "n", "N", " ", CtrlC, CtrlBackslash, KeyOther, EOF}

\* Terminal settings tcgetattr can report before the first read.
TtyModes == {"cooked", "cbreak"}

VARIABLES
    repo_ids,            \* argument of display_and_confirm_repos
    i,                   \* 1-based position of the for loop in repo_ids
    pc,                  \* position of the process in the code
    content,             \* repo_card.content of the README on screen
    readme_lines,        \* content.split("\n")
    start,               \* display_readme: first line of the current page
    rendered,            \* pages printed by the display_readme call in progress
    ch,                  \* get_key_press: the character read
    exc,                 \* get_key_press: an exception is propagating
    key,                 \* display_readme: value returned by get_key_press
    ret,                 \* return value of display_readme ("None" until set)
    tty0,                \* the terminal's settings when the process started
    termMode,            \* the terminal's current settings
    old_settings,        \* get_key_press: settings saved by tcgetattr
    confirmed_repos,     \* display_and_confirm_repos: local list
    not_confirmed_repos, \* display_and_confirm_repos: local list
    log,                 \* decision and cancel lines printed so far
    yaml_file,           \* documents appended to filtered_repos.yaml
    returned,            \* <<list>> once display_and_confirm_repos returned
    initial_repo_ids,           \* dry_run: what get_no_library_repos returned
    j,                          \* 1-based position of the filter loop in progress
    likely_transformers_repos,  \* result of find_likely_transformers_repos
    repos_without_prs,          \* result of filter_repos_without_prs
    repos_with_import,          \* auto_confirmed of the import filter
    repos_without_import,       \* to_be_confirmed of the import filter
    processing_repos            \* dry_run: the list written to processed_repos.yaml

vars == <<repo_ids, i, pc, content, readme_lines, start, rendered, ch,
          exc, key, ret, tty0, termMode, old_settings, confirmed_repos,
          not_confirmed_repos, log, yaml_file, returned, initial_repo_ids, j,
          likely_transformers_repos, repos_without_prs, repos_with_import,
          repos_without_import, processing_repos>>

\* The locals of dry_run.  They are kept when the frames below dry_run
\* unwind, as the record of what each filter produced.
dry == <<initial_repo_ids, j, likely_transformers_repos, repos_without_prs,
         repos_with_import, repos_without_import, processing_repos>>

Min(a, b) == IF a < b THEN a ELSE b

\* ------------------------------------------------------------ README body
\* n lines of text joined by "\n", with a final "\n" when trailing.
Body(n, trailing) ==
    [k \in 1..(IF n = 0 THEN 0 ELSE 2 * n - 1) |->
        IF k % 2 = 1 THEN (k + 1) \div 2 ELSE NL]
    \o (IF trailing THEN <<NL>> ELSE <<>>)

Bodies == {Body(n, t) : n \in 0..MaxLines, t \in BOOLEAN}

\* load_metadata returns (None, None) when the card cannot be loaded.
NoCard == <<-1>>

\* The pieces of two adjacent stretches of text, joined: the last piece of
\* the left stretch and the first piece of the right one are one piece.
JoinPieces(a, b) ==
    SubSeq(a, 1, Len(a) - 1) \o <<a[Len(a)] \o b[1]>> \o SubSeq(b, 2, Len(b))

\* The pieces of s[lo..hi] between its newlines.
RECURSIVE Pieces(_, _, _)
Pieces(s, lo, hi) ==
    IF lo > hi THEN << <<>> >>
    ELSE IF lo = hi
         THEN IF s[lo] = NL THEN << <<>>, <<>> >> ELSE << <<s[lo]>> >>
         ELSE JoinPieces(Pieces(s, lo, (lo + hi) \div 2),
                         Pieces(s, (lo + hi) \div 2 + 1, hi))

\* A splitlines-like split: no piece for an empty body or after a final
\* newline.
SplitDropsEmptyTail(s) ==
    LET all == Pieces(s, 1, Len(s))
    IN IF all[Len(all)] = <<>> THEN SubSeq(all, 1, Len(all) - 1) ELSE all

\* str.split("\n"): one piece more than there are newlines, so never empty.
Split(s) == Pieces(s, 1, Len(s))

\* content.split("\n") of every body load_metadata can return.
SplitOf == [c \in Bodies |-> Split(c)]

\* readme_lines[a:b] for 0 <= a <= b.
PySlice(s, a, b) == SubSeq(s, a + 1, Min(b, Len(s)))

\* str.lower() on a one-character (or empty) string.
LowerIdentity(k) == k

Lower(k) == CASE k = "Y" -> "y" [] k = "N" -> "n" [] OTHER -> k

\* ------------------------------------------------------------------- Init
\* dry_run is not on the stack: display_and_confirm_repos is entered with
\* a list of its own.
DryRunIdle ==
    /\ initial_repo_ids = <<>>
    /\ j = 0
    /\ likely_transformers_repos = <<>>
    /\ repos_without_prs = <<>>
    /\ repos_with_import = <<>>
    /\ repos_without_import = <<>>
    /\ processing_repos = <<>>

Init ==
    /\ repo_ids \in {[k \in 1..n |-> k] : n \in 0..MaxItems}
    /\ i = 1
    /\ pc = "for"
    /\ content = <<>>
    /\ readme_lines = <<>>
    /\ start = 0
    /\ rendered = <<>>
    /\ ch = "None"
    /\ exc = FALSE
    /\ key = "None"
    /\ ret = "None"
    /\ tty0 \in TtyModes
    /\ termMode = tty0
    /\ old_settings = "None"
    /\ confirmed_repos = <<>>
    /\ not_confirmed_repos = <<>>
    /\ log = <<>>
    /\ yaml_file = <<>>
    /\ returned = <<>>
    /\ DryRunIdle

\* ------------------------------------------------ display_and_confirm_repos
\* for repo_id in repo_ids: the call of display_readme, or the end of the loop.
ForRepo ==
    /\ pc = "for"
    /\ pc' = IF i <= Len(repo_ids) THEN "load" ELSE "dump"
    /\ UNCHANGED <<dry, tty0, repo_ids, i, content, readme_lines, start, rendered, 
                   ch, exc, key, ret, termMode, old_settings, confirmed_repos,
                   not_confirmed_repos, log, yaml_file, returned>>

\* An uncaught exception or SystemExit unwinds every frame: the locals of
\* get_key_press, display_readme and display_and_confirm_repos are gone.
Unwind(to) ==
    /\ pc' = to
    /\ content' = <<>>
    /\ readme_lines' = <<>>
    /\ start' = 0
    /\ ch' = "None"
    /\ exc' = FALSE
    /\ key' = "None"
    /\ ret' = "None"
    /\ old_settings' = "None"
    /\ confirmed_repos' = <<>>
    /\ not_confirmed_repos' = <<>>

\* ---------------------------------------------------------- display_readme
\* load_metadata and the split; a card that cannot be loaded is None, and
\* repo_card.content raises AttributeError, which nothing catches.
LoadReadme ==
    /\ pc = "load"
    /\ \E c \in Bodies \cup {NoCard} :
        IF c = NoCard
        THEN /\ Unwind("traceback")
             /\ UNCHANGED rendered
        ELSE /\ content' = c
             /\ readme_lines' = SplitOf[c]
             /\ start' = 0
             /\ rendered' = <<>>
             /\ ret' = "None"
             /\ key' = "None"
             /\ ch' = "None"
             /\ pc' = "while"
             /\ UNCHANGED <<exc, old_settings, confirmed_repos,
                            not_confirmed_repos>>
    /\ UNCHANGED <<dry, tty0, repo_ids, i, termMode, log, yaml_file, returned>>

\* The page printed for the current start: header, slice of lines, prompt.
PageSkipsLine(lines, s) ==
    [lines |-> PySlice(lines, s + 1, s + 1 + lines_per_page),
     prompt |-> IF s + lines_per_page >= Len(lines) THEN "y/n" ELSE "y/n/space"]

Page(lines, s) ==
    [lines |-> PySlice(lines, s, s + lines_per_page),
     prompt |-> IF s + lines_per_page >= Len(lines) THEN "y/n" ELSE "y/n/space"]

\* while start < len(readme_lines): print the page, or fall through to
\* the final return False.
RenderPage ==
    /\ pc = "while"
    /\ IF start < Len(readme_lines)
       THEN /\ rendered' = Append(rendered,
                               [repo |-> repo_ids[i]] @@ Page(readme_lines, start))
            /\ pc' = "tcgetattr"
            /\ ret' = ret
       ELSE /\ ret' = "False"
            /\ pc' = "ret"
            /\ rendered' = rendered
    /\ UNCHANGED <<dry, tty0, repo_ids, i, content, readme_lines, start, ch, exc,
                   key, termMode, old_settings, confirmed_repos,
                   not_confirmed_repos, log, yaml_file, returned>>

\* ----------------------------------------------------------- get_key_press
\* fd = sys.stdin.fileno(); old_settings = termios.tcgetattr(fd).  Outside
\* the try: when stdin is no terminal termios.error propagates at once.
TcGetAttr ==
    /\ pc = "tcgetattr"
    /\ \/ /\ old_settings' = termMode
          /\ pc' = "setraw"
          /\ UNCHANGED <<content, readme_lines, start, ch, exc, key, ret,
                         confirmed_repos, not_confirmed_repos>>
       \/ Unwind("traceback")
    /\ UNCHANGED <<dry, tty0, repo_ids, i, rendered, termMode, log, yaml_file,
                   returned>>

\* try: tty.setraw(fd)
SetRaw ==
    /\ pc = "setraw"
    /\ termMode' = "raw"
    /\ pc' = "read"
    /\ UNCHANGED <<dry, tty0, repo_ids, i, content, readme_lines, start, rendered, 
                   ch, exc, key, ret, old_settings, confirmed_repos,
                   not_confirmed_repos, log, yaml_file, returned>>

\* ch = sys.stdin.read(1): a character, the empty string at end of input,
\* or an exception (an I/O error, a signal).
ReadChar ==
    /\ pc = "read"
    /\ \/ \E k \in Keys : /\ ch' = k
                          /\ exc' = FALSE
       \/ /\ exc' = TRUE
          /\ UNCHANGED ch
    /\ pc' = "finally"
    /\ UNCHANGED <<dry, tty0, repo_ids, i, content, readme_lines, start, rendered, key,
                   ret, termMode, old_settings, confirmed_repos,
                   not_confirmed_repos, log, yaml_file, returned>>

\* A finally clause that restores the settings only when the read returned.
RestoreOnlyOnSuccess ==
    /\ pc = "finally"
    /\ termMode' = IF exc \/ ch \in {CtrlC, CtrlBackslash}
                   THEN termMode ELSE old_settings
    /\ IF exc
       THEN Unwind("traceback")
       ELSE /\ key' = ch
            /\ pc' = "dispatch"
            /\ UNCHANGED <<content, readme_lines, start, ch, exc, ret,
                           old_settings, confirmed_repos, not_confirmed_repos>>
    /\ UNCHANGED <<dry, tty0, repo_ids, i, rendered, log, yaml_file, returned>>

\* finally: termios.tcsetattr(fd, TCSADRAIN, old_settings); then return ch,
\* or let the exception go on to the callers, none of which catches it.
RestoreTty ==
    /\ pc = "finally"
    /\ termMode' = old_settings
    /\ IF exc
       THEN Unwind("traceback")
       ELSE /\ key' = ch
            /\ pc' = "dispatch"
            /\ UNCHANGED <<content, readme_lines, start, ch, exc, ret,
                           old_settings, confirmed_repos, not_confirmed_repos>>
    /\ UNCHANGED <<dry, tty0, repo_ids, i, rendered, log, yaml_file, returned>>

\* ------------------------------------------- display_readme: the key branches
\* What every branch but the interrupt ones leaves alone.
KeepFrames ==
    UNCHANGED <<dry, tty0, repo_ids, i, content, readme_lines, rendered, ch, exc,
                key, termMode, old_settings, confirmed_repos,
                not_confirmed_repos, yaml_file, returned>>

\* A 'y' branch that prints its line and forgets to return: the inner loop
\* reads on.
OnYesNoReturn ==
    /\ Lower(key) = "y"
    /\ log' = Append(log, <<"Confirmed", repo_ids[i]>>)
    /\ ret' = ret
    /\ pc' = "tcgetattr"
    /\ start' = start
    /\ KeepFrames

\* if key.lower() == 'y': print Confirmed; return True
OnYes ==
    /\ Lower(key) = "y"
    /\ log' = Append(log, <<"Confirmed", repo_ids[i]>>)
    /\ ret' = "True"
    /\ pc' = "ret"
    /\ start' = start
    /\ KeepFrames

\* An 'n' that only skips to the next page, the answer left to a later key.
OnNoSkipsPage ==
    /\ Lower(key) = "n"
    /\ log' = log
    /\ ret' = ret
    /\ pc' = "while"
    /\ start' = start + lines_per_page
    /\ KeepFrames

\* elif key.lower() == 'n': print Not confirmed; return False
OnNo ==
    /\ Lower(key) = "n"
    /\ log' = Append(log, <<"Not confirmed", repo_ids[i]>>)
    /\ ret' = "False"
    /\ pc' = "ret"
    /\ start' = start
    /\ KeepFrames

\* start + lines_per_page < len(readme_lines): a page follows this one.
HasNextPageOffByOne(s, n) == s + lines_per_page <= n

HasNextPage(s, n) == s + lines_per_page < n

\* A space that leaves the inner loop on every page, the last one included.
OnSpaceAlways ==
    /\ key = " "
    /\ start' = start + lines_per_page
    /\ pc' = "while"
    /\ UNCHANGED <<log, ret>>
    /\ KeepFrames

\* elif key == ' ' and start + lines_per_page < len(readme_lines): break,
\* and then start += lines_per_page and the outer loop's test.
OnSpace ==
    /\ key = " "
    /\ HasNextPage(start, Len(readme_lines))
    /\ start' = start + lines_per_page
    /\ pc' = "while"
    /\ UNCHANGED <<log, ret>>
    /\ KeepFrames

\* An interrupt key handled like 'n': the item is rejected and the batch goes on.
OnInterruptRejects ==
    /\ key \in {CtrlC, CtrlBackslash}
    /\ log' = Append(log, <<"Not confirmed", repo_ids[i]>>)
    /\ ret' = "False"
    /\ pc' = "ret"
    /\ start' = start
    /\ KeepFrames

\* An interrupt after which the caller still writes its record.
OnInterruptDumps ==
    /\ key \in {CtrlC, CtrlBackslash}
    /\ log' = Append(log, <<"Operation cancelled", key>>)
    /\ yaml_file' = Append(yaml_file,
                           [confirmed_repos |-> confirmed_repos,
                            not_confirmed_repos |-> not_confirmed_repos])
    /\ Unwind("exit1")
    /\ UNCHANGED <<dry, tty0, repo_ids, i, rendered, termMode, returned>>

\* elif key == '\x03' / elif key == '\x1c': print the cancel line; exit(1).
\* SystemExit is caught nowhere: the process ends with status 1.
OnInterrupt ==
    /\ key \in {CtrlC, CtrlBackslash}
    /\ log' = Append(log, <<"Operation cancelled", key>>)
    /\ Unwind("exit1")
    /\ UNCHANGED <<dry, tty0, repo_ids, i, rendered, termMode, yaml_file, returned>>

\* An unnamed key taken as "any key to continue": it leaves the inner loop
\* like a space.
OnOtherAdvances ==
    /\ Lower(key) \notin {"y", "n"}
    /\ key \notin {CtrlC, CtrlBackslash}
    /\ ~(key = " " /\ HasNextPage(start, Len(readme_lines)))
    /\ pc' = "while"
    /\ start' = start + lines_per_page
    /\ UNCHANGED <<log, ret>>
    /\ KeepFrames

\* No branch matches: the inner while True reads the next key.  This is
\* every other key, the empty string of end of input, and a space on the
\* last page.
OnOther ==
    /\ Lower(key) \notin {"y", "n"}
    /\ key \notin {CtrlC, CtrlBackslash}
    /\ ~(key = " " /\ HasNextPage(start, Len(readme_lines)))
    /\ pc' = "tcgetattr"
    /\ UNCHANGED <<log, ret, start>>
    /\ KeepFrames

\* The if/elif chain on the key get_key_press returned.
HandleKey ==
    /\ pc = "dispatch"
    /\ \/ OnYes
       \/ OnNo
       \/ OnSpace
       \/ OnInterrupt
       \/ OnOther

\* --------------------------------- display_and_confirm_repos: after the call
\* if display_readme(repo_id): confirmed_repos.append(repo_id)
\* else: not_confirmed_repos.append(repo_id); then the next repo_id.  The
\* call is over: its locals, and those of get_key_press, are gone, and
\* rendered starts again for the next call.
Collect ==
    /\ pc = "ret"
    /\ IF ret = "True"
       THEN /\ confirmed_repos' = Append(confirmed_repos, repo_ids[i])
            /\ UNCHANGED not_confirmed_repos
       ELSE /\ not_confirmed_repos' = Append(not_confirmed_repos, repo_ids[i])
            /\ UNCHANGED confirmed_repos
    /\ i' = i + 1
    /\ pc' = "for"
    /\ content' = <<>>
    /\ readme_lines' = <<>>
    /\ start' = 0
    /\ rendered' = <<>>
    /\ ch' = "None"
    /\ key' = "None"
    /\ ret' = "None"
    /\ old_settings' = "None"
    /\ UNCHANGED <<dry, tty0, repo_ids, exc, termMode, log, yaml_file, returned>>

\* yaml.dump of the two lists appended to filtered_repos.yaml;
\* return confirmed_repos.
DumpAndReturn ==
    /\ pc = "dump"
    /\ yaml_file' = Append(yaml_file,
                           [confirmed_repos |-> confirmed_repos,
                            not_confirmed_repos |-> not_confirmed_repos])
    /\ returned' = <<confirmed_repos>>
    /\ pc' = "returned"
    /\ UNCHANGED <<dry, tty0, repo_ids, i, content, readme_lines, start, rendered, 
                   ch, exc, key, ret, termMode, old_settings, confirmed_repos,
                   not_confirmed_repos, log>>

\* ------------------------------------------------------------------ dry_run
\* What api.model_info can report about a repository, as far as
\* find_likely_transformers_repos looks: ggml_id is 'ggml' in repo_id.lower(),
\* excluded_tag a tag among colbert, nemo, paddlenlp, ggml, sam2, config_json
\* a sibling named config.json, architectures that key in model_info.config.
ModelInfos ==
    [pipeline_tag : BOOLEAN, library_name : {"None", "diffusers", "other"},
     ggml_id : BOOLEAN, excluded_tag : BOOLEAN, config_json : BOOLEAN,
     architectures : BOOLEAN]

\* The list find_likely_transformers_repos puts a repository on.
Classify(m) ==
    IF m.pipeline_tag /\ m.library_name # "None" THEN "already_tagged"
    ELSE IF m.library_name = "diffusers" THEN "already_tagged"
    ELSE IF m.ggml_id THEN "other"
    ELSE IF m.excluded_tag THEN "other"
    ELSE IF m.config_json
         THEN IF ~m.architectures THEN "other" ELSE "likely"
         ELSE "other"

\* One round of the loop of find_likely_transformers_repos, or its end: the
\* lists are written to filtered_repos.yaml (opened with "w").  A failing
\* api.model_info ends the process with sys.exit(1).
FindLikely ==
    /\ pc = "find"
    /\ IF j <= Len(initial_repo_ids)
       THEN \/ /\ pc' = "fetch_exit1"
               /\ UNCHANGED <<j, likely_transformers_repos, yaml_file>>
            \/ \E m \in ModelInfos :
                  /\ likely_transformers_repos' =
                        IF Classify(m) = "likely"
                        THEN Append(likely_transformers_repos, initial_repo_ids[j])
                        ELSE likely_transformers_repos
                  /\ j' = j + 1
                  /\ UNCHANGED <<pc, yaml_file>>
       ELSE /\ yaml_file' = << [likely_transformers_repos |->
                                   likely_transformers_repos] >>
            /\ pc' = "prs"
            /\ j' = 1
            /\ UNCHANGED likely_transformers_repos
    /\ UNCHANGED <<tty0, repo_ids, i, content, readme_lines, start, rendered,
                   ch, exc, key, ret, termMode, old_settings, confirmed_repos,
                   not_confirmed_repos, log, returned, initial_repo_ids,
                   repos_without_prs, repos_with_import, repos_without_import,
                   processing_repos>>

\* What api.get_repo_discussions can return: discussions by their author
\* and whether they are pull requests.
Discussions == SUBSET ({"xianbao", "someone"} \X BOOLEAN)

\* any(pr.author == "xianbao" and pr.is_pull_request for pr in prs)
HasPrByXianbao(prs) == \E d \in prs : d[1] = "xianbao" /\ d[2]

\* One round of the loop of filter_repos_without_prs, or its end.  An
\* exception of the request is caught and printed: the repository is on no
\* list.
FilterPrs ==
    /\ pc = "prs"
    /\ IF j <= Len(likely_transformers_repos)
       THEN /\ \/ \E prs \in Discussions :
                     repos_without_prs' =
                        IF ~HasPrByXianbao(prs)
                        THEN Append(repos_without_prs,
                                    likely_transformers_repos[j])
                        ELSE repos_without_prs
               \/ UNCHANGED repos_without_prs
            /\ j' = j + 1
            /\ UNCHANGED <<pc, yaml_file>>
       ELSE /\ yaml_file' = Append(yaml_file,
                                   [repos_without_prs |-> repos_without_prs])
            /\ pc' = "import"
            /\ j' = 1
            /\ UNCHANGED repos_without_prs
    /\ UNCHANGED <<tty0, repo_ids, i, content, readme_lines, start, rendered,
                   ch, exc, key, ret, termMode, old_settings, confirmed_repos,
                   not_confirmed_repos, log, returned, initial_repo_ids,
                   likely_transformers_repos, repos_with_import,
                   repos_without_import, processing_repos>>

\* What load_metadata gives the import filter: no card (loaded is FALSE),
\* or a card of which the filter asks whether its content holds an import
\* of transformers and whether it holds 'pip install transformers'.
Cards == [loaded : BOOLEAN, import : BOOLEAN, pip : BOOLEAN]

\* The list the import filter puts a repository with a card on;
\* transformers_version is whether model_info.config holds that key.
ImportVerdict(card, transformers_version) ==
    IF card.import
    THEN IF card.pip THEN "to_be_confirmed" ELSE "auto_confirmed"
    ELSE IF transformers_version THEN "auto_confirmed" ELSE "to_be_confirmed"

\* One round of the loop of filter_repos_with_transformers_import, or its
\* end.  A repository without a card is skipped; an exception of
\* api.model_info is caught nowhere.
FilterImport ==
    /\ pc = "import"
    /\ IF j <= Len(repos_without_prs)
       THEN \/ /\ pc' = "traceback"
               /\ UNCHANGED <<j, repos_with_import, repos_without_import>>
            \/ \E card \in Cards, tv \in BOOLEAN :
                  LET id == repos_without_prs[j]
                      to == IF ~card.loaded THEN "skipped"
                            ELSE ImportVerdict(card, tv)
                  IN /\ repos_with_import' =
                           IF to = "auto_confirmed"
                           THEN Append(repos_with_import, id)
                           ELSE repos_with_import
                     /\ repos_without_import' =
                           IF to = "to_be_confirmed"
                           THEN Append(repos_without_import, id)
                           ELSE repos_without_import
                     /\ j' = j + 1
                     /\ pc' = pc
       ELSE /\ pc' = "call"
            /\ UNCHANGED <<j, repos_with_import, repos_without_import>>
    /\ UNCHANGED <<tty0, repo_ids, i, content, readme_lines, start, rendered,
                   ch, exc, key, ret, termMode, old_settings, confirmed_repos,
                   not_confirmed_repos, log, yaml_file, returned,
                   initial_repo_ids, likely_transformers_repos,
                   repos_without_prs, processing_repos>>

\* confirmed_repos = display_and_confirm_repos(repos_without_import): the
\* call, with the two empty lists it starts with.
CallConfirm ==
    /\ pc = "call"
    /\ repo_ids' = repos_without_import
    /\ i' = 1
    /\ confirmed_repos' = <<>>
    /\ not_confirmed_repos' = <<>>
    /\ pc' = "for"
    /\ UNCHANGED <<dry, tty0, content, readme_lines, start, rendered, ch, exc,
                   key, ret, termMode, old_settings, log, yaml_file, returned>>

\* A dry_run that hands on every repository shown to the operator, whatever
\* the answer was.
ProcessingReposUnreviewed(auto, confirmed) == auto \o repo_ids

\* processing_repos = repos_with_import + confirmed_repos
ProcessingRepos(auto, confirmed) == auto \o confirmed

\* The list is written to processed_repos.yaml and returned.
FinishDryRun ==
    /\ pc = "returned"
    /\ processing_repos' = ProcessingRepos(repos_with_import, returned[1])
    /\ pc' = "dry_done"
    /\ UNCHANGED <<tty0, repo_ids, i, content, readme_lines, start, rendered,
                   ch, exc, key, ret, termMode, old_settings, confirmed_repos,
                   not_confirmed_repos, log, yaml_file, returned,
                   initial_repo_ids, j, likely_transformers_repos,
                   repos_without_prs, repos_with_import, repos_without_import>>

Next ==
    \/ ForRepo
    \/ LoadReadme
    \/ RenderPage
    \/ TcGetAttr
    \/ SetRaw
    \/ ReadChar
    \/ RestoreTty
    \/ HandleKey
    \/ Collect
    \/ DumpAndReturn

Spec == Init /\ [][Next]_vars

\* dry_run from its start: get_no_library_repos has returned a list of
\* distinct model ids, and nothing else has run.
InitDryRun ==
    /\ initial_repo_ids \in {[k \in 1..n |-> k] : n \in 0..MaxRepos}
    /\ j = 1
    /\ likely_transformers_repos = <<>>
    /\ repos_without_prs = <<>>
    /\ repos_with_import = <<>>
    /\ repos_without_import = <<>>
    /\ processing_repos = <<>>
    /\ pc = "find"
    /\ repo_ids = <<>>
    /\ i = 1
    /\ content = <<>>
    /\ readme_lines = <<>>
    /\ start = 0
    /\ rendered = <<>>
    /\ ch = "None"
    /\ exc = FALSE
    /\ key = "None"
    /\ ret = "None"
    /\ tty0 \in TtyModes
    /\ termMode = tty0
    /\ old_settings = "None"
    /\ confirmed_repos = <<>>
    /\ not_confirmed_repos = <<>>
    /\ log = <<>>
    /\ yaml_file = <<>>
    /\ returned = <<>>

NextDryRun ==
    \/ FindLikely
    \/ FilterPrs
    \/ FilterImport
    \/ CallConfirm
    \/ Next
    \/ FinishDryRun

SpecDryRun == InitDryRun /\ [][NextDryRun]_vars

\* ======================================================= checked properties
\* Positions at which a display_readme call is in progress.
PromptPcs == {"while", "tcgetattr", "setraw", "read", "finally", "dispatch",
              "ret"}
\* Positions inside get_key_press.
KeyReadPcs == {"tcgetattr", "setraw", "read", "finally"}

\* Every line printed so far by the call in progress, page after page.
RECURSIVE LinesOf(_, _)
LinesOf(pages, k) ==
    IF k = 0 THEN <<>> ELSE LinesOf(pages, k - 1) \o pages[k].lines
RenderedLines == LinesOf(rendered, Len(rendered))

\* The page on screen is the last one: every line of the body has been printed.
OnLastPage == Len(RenderedLines) = Len(readme_lines)

\* C1: a 'y' or 'Y' read on any page makes display_readme return True at
\* once: the very next step is the return, no page is printed and nothing
\* else changes; and once the result is True the only step left for the item
\* is the caller's append, so no key is read and no page printed after it.
YesReturnsConfirmedAtOnce ==
    [][ /\ (pc = "dispatch" /\ key \in {"y", "Y"})
            => /\ pc' = "ret"
               /\ ret' = "True"
               /\ UNCHANGED <<rendered, start, i, confirmed_repos,
                              not_confirmed_repos>>
        /\ ret = "True"
            => /\ pc = "ret"
               /\ pc' = "for"
               /\ i' = i + 1
               /\ confirmed_repos' = Append(confirmed_repos, repo_ids[i])
      ]_vars

\* 'Y' was pressed on the middle page of a three-page body.
YesOnMiddlePage ==
    /\ pc = "ret"
    /\ ret = "True"
    /\ key = "Y"
    /\ start = lines_per_page
    /\ Len(rendered) = 2
    /\ Len(readme_lines) > 2 * lines_per_page

\* C2: an 'n' or 'N' read on any page makes display_readme return False at
\* once: the very next step is the return, no page is printed and nothing
\* else changes; and once the result is False the only step left for the
\* item is the caller's append to not_confirmed_repos.
NoReturnsRejectedAtOnce ==
    [][ /\ (pc = "dispatch" /\ key \in {"n", "N"})
            => /\ pc' = "ret"
               /\ ret' = "False"
               /\ UNCHANGED <<rendered, start, i, confirmed_repos,
                              not_confirmed_repos>>
        /\ ret = "False"
            => /\ pc = "ret"
               /\ pc' = "for"
               /\ i' = i + 1
               /\ not_confirmed_repos' = Append(not_confirmed_repos, repo_ids[i])
      ]_vars

\* 'n' was pressed on the first page of a body that has more pages.
NoOnFirstPage ==
    /\ pc = "ret"
    /\ ret = "False"
    /\ key = "n"
    /\ start = 0
    /\ Len(rendered) = 1
    /\ Len(readme_lines) > lines_per_page

\* C3: Ctrl+C or Ctrl+\ read on any page of any item ends the process
\* (exit status 1) in the next step, without a Rejected result for the item
\* (no return value, no "Not confirmed" line, nothing appended to either
\* list), and after it nothing happens any more: no page is printed and no
\* key is read for a later item.
InterruptIsHardStop ==
    [][ /\ (pc = "dispatch" /\ key \in {CtrlC, CtrlBackslash})
            => /\ pc' = "exit1"
               /\ ret' = "None"
               /\ log' = Append(log, <<"Operation cancelled", key>>)
               /\ UNCHANGED <<rendered, i, yaml_file, returned>>
        /\ pc = "exit1" => UNCHANGED vars
      ]_vars

\* Ctrl+\ was read on the second page of the first of two items.
InterruptedBeforeLastItem ==
    /\ pc = "exit1"
    /\ i = 1
    /\ Len(repo_ids) = 2
    /\ Len(rendered) = 2
    /\ log = << <<"Operation cancelled", CtrlBackslash>> >>

\* C4: a space read while the page on screen is not the last one moves
\* start forward by exactly lines_per_page, with no result; read while the
\* last page is on screen it changes nothing: same start, no page printed,
\* no result, and the prompt reads another key.
SpaceAdvancesOnePageUnlessLast ==
    [][ (pc = "dispatch" /\ key = " ")
            => IF OnLastPage
               THEN /\ pc' = "tcgetattr"
                    /\ UNCHANGED <<start, rendered, ret, i, log,
                                   confirmed_repos, not_confirmed_repos>>
               ELSE /\ pc' = "while"
                    /\ start' = start + lines_per_page
                    /\ UNCHANGED <<rendered, ret, i, log, confirmed_repos,
                                   not_confirmed_repos>>
      ]_vars

\* A space was read on the second, last page of a 60-line body and the
\* prompt is about to read again.
SpaceIgnoredOnLastPage ==
    /\ pc = "tcgetattr"
    /\ key = " "
    /\ start = lines_per_page
    /\ Len(readme_lines) = 2 * lines_per_page
    /\ Len(rendered) = 2
    /\ ret = "None"

\* C5 as stated: a space read while the last page is on screen ends the
\* paging, the body being exhausted, so that display_readme falls through to
\* its final return False.
SpaceOnLastPageExhaustsBody ==
    [][ (pc = "dispatch" /\ key = " " /\ OnLastPage)
            => /\ pc' = "while"
               /\ start' >= Len(readme_lines)
      ]_vars

\* C5, amended: the outer loop's test never fails, so the final return False
\* is never reached: display_readme returns False only after an 'n' or 'N'
\* and True only after a 'y' or 'Y'; a space on the last page is not a
\* decision, it leaves the prompt waiting on that page.
OnlyExplicitKeyDecides ==
    /\ pc = "while" => start < Len(readme_lines)
    /\ ret = "False" => key \in {"n", "N"}
    /\ ret = "True" => key \in {"y", "Y"}
    /\ (pc \in KeyReadPcs /\ key = " " /\ OnLastPage) => ret = "None"

\* Space was pressed on each of the three pages of a body, the last one
\* included, and the prompt is still waiting for a key with no result.
SpacedThroughAllPages ==
    /\ pc = "read"
    /\ key = " "
    /\ Len(rendered) = 3
    /\ OnLastPage
    /\ start = 2 * lines_per_page
    /\ ret = "None"

\* ceil(n / p)
CeilDiv(n, p) == (n + p - 1) \div p

\* C6: with N = len(readme_lines) and P = lines_per_page, page k (from 0)
\* is the slice of lines k*P+1 .. min((k+1)*P, N), so the pages printed are
\* a prefix of the body with no line skipped or repeated; never more than
\* ceil(N/P) pages are printed, exactly ceil(N/P) once the last page is on
\* screen, and a decision taken on page k has printed exactly k+1 pages.
PagesPartitionBody ==
    pc \in PromptPcs =>
        LET N == Len(readme_lines)
            P == lines_per_page
        IN /\ \A k \in 1..Len(rendered) :
                 rendered[k].lines
                     = SubSeq(readme_lines, (k - 1) * P + 1, Min(k * P, N))
           /\ Len(rendered) <= CeilDiv(N, P)
           /\ pc # "while" => Len(rendered) = start \div P + 1
           /\ (pc # "while" /\ start + P >= N) => Len(rendered) = CeilDiv(N, P)
           /\ (pc # "while" /\ start + P < N) => Len(rendered) < CeilDiv(N, P)
           /\ pc = "while" => Len(rendered) = start \div P
           /\ start % P = 0

\* The 65-line body paged to its end: pages of 30, 30 and 5 lines.
SixtyFiveLinesThreePages ==
    /\ pc = "tcgetattr"
    /\ Len(readme_lines) = 65
    /\ Len(rendered) = 3
    /\ Len(rendered[1].lines) = 30
    /\ Len(rendered[2].lines) = 30
    /\ rendered[3].lines = SubSeq(readme_lines, 61, 65)

\* C7: the terminal is away from the settings it had before the read only
\* between tty.setraw and the finally clause of the same get_key_press
\* call; at every other position, whatever was read and also when the read
\* raised, it has the settings it started with, which are never raw: so when
\* display_readme returns, when the process exits on an interrupt key and
\* when an exception ends it.
TtyRestoredAfterEveryRead ==
    /\ pc \notin {"read", "finally"} => termMode = tty0
    /\ pc \in {"ret", "exit1", "traceback", "returned", "dispatch"}
           => termMode # "raw"
    /\ pc \in {"setraw", "read", "finally"} => old_settings = tty0

\* The process has exited on an interrupt key read in raw mode and the
\* terminal is back in the cbreak settings it started with.
ExitedOnInterruptTtyRestored ==
    /\ pc = "exit1"
    /\ tty0 = "cbreak"
    /\ termMode = "cbreak"
    /\ log # <<>>
    /\ log[Len(log)][1] = "Operation cancelled"

\* C8: for an empty body the split gives one empty line, so the first test
\* of the outer loop succeeds, exactly one page holding that one empty line
\* is printed and the prompt reads a key; a result exists only after a key
\* was read, False only after 'n' or 'N', and still only one page was printed.
EmptyBodyStillPrompts ==
    (content = <<>> /\ pc \in PromptPcs) =>
        /\ readme_lines = << <<>> >>
        /\ pc = "while" => (start = 0 /\ rendered = <<>> /\ key = "None")
        /\ pc # "while"
              => /\ Len(rendered) = 1
                 /\ rendered[1].lines = << <<>> >>
                 /\ rendered[1].repo = repo_ids[i]
        /\ pc \in KeyReadPcs \cup {"dispatch"} => ret = "None"
        /\ pc = "ret" => /\ key \in {"y", "Y", "n", "N"}
                         /\ ret = "False" <=> key \in {"n", "N"}

\* 'n' on the one page of an empty body: Rejected, one page printed.
EmptyBodyRejectedByKey ==
    /\ content = <<>>
    /\ pc = "ret"
    /\ ret = "False"
    /\ key = "n"
    /\ Len(rendered) = 1
    /\ rendered[1].lines = << <<>> >>

\* C9 as stated: when the one-character read returns the empty string of
\* end of input, the prompt stops: the next step ends the run as aborted
\* (the exit, or an exception reaching the caller) and is not another read.
EndOfInputAborts ==
    [][ (pc = "dispatch" /\ key = EOF) => pc' \in {"exit1", "traceback"} ]_vars

\* The set of elements of a sequence.
Range(q) == {q[k] : k \in 1..Len(q)}

\* C10 as stated: after an abort at item i, every earlier item is still in
\* the caller's confirmed or not_confirmed list, or in the record it wrote,
\* or in what it returned.
EarlierDecisionsSurviveAbort ==
    pc = "exit1" =>
        \A k \in 1..(i - 1) :
            \/ repo_ids[k] \in Range(confirmed_repos) \cup Range(not_confirmed_repos)
            \/ \E d \in Range(yaml_file) :
                   repo_ids[k] \in Range(d.confirmed_repos)
                                       \cup Range(d.not_confirmed_repos)
            \/ \E r \in Range(returned) : repo_ids[k] \in Range(r)

\* C10, amended: after an abort at item i the decisions on items 1..i-1
\* are not kept: the process has exited before display_and_confirm_repos
\* wrote its record or returned, and its two lists are gone with it.  What
\* is left of them is the "Confirmed"/"Not confirmed" line printed for each
\* earlier item, in order, before the cancel line.
AbortDropsBatchRecord ==
    pc = "exit1" =>
        /\ yaml_file = <<>>
        /\ returned = <<>>
        /\ confirmed_repos = <<>>
        /\ not_confirmed_repos = <<>>
        /\ Len(log) = i
        /\ \A k \in 1..(i - 1) :
               /\ log[k][1] \in {"Confirmed", "Not confirmed"}
               /\ log[k][2] = repo_ids[k]
        /\ log[i][1] = "Operation cancelled"

\* The first item was confirmed and the second one interrupted.
AbortedAfterOneDecision ==
    /\ pc = "exit1"
    /\ i = 2
    /\ log[1] = <<"Confirmed", repo_ids[1]>>
    /\ log[2] = <<"Operation cancelled", CtrlC>>

\* The decision lines printed so far for repository id.
DecisionLines(id) ==
    {q \in 1..Len(log) :
        log[q][1] \in {"Confirmed", "Not confirmed"} /\ log[q][2] = id}

\* C11: each item gets at most one decision (one decision line, one place
\* in one of the two lists, a result that stays as it is until the caller
\* has taken it), and when the result is produced the pages printed are the
\* first pages of the body up to and including the page the key was pressed
\* on, at least one; on the last page these are all the pages.
OneDecisionAfterPagesShown ==
    /\ \A k \in 1..Len(repo_ids) :
          /\ Cardinality(DecisionLines(repo_ids[k])) <= 1
          /\ Cardinality({q \in 1..Len(confirmed_repos) :
                              confirmed_repos[q] = repo_ids[k]})
               + Cardinality({q \in 1..Len(not_confirmed_repos) :
                                  not_confirmed_repos[q] = repo_ids[k]}) <= 1
          /\ (k >= i /\ pc \notin {"ret", "for"}) => DecisionLines(repo_ids[k]) = {}
    /\ ret # "None"
          => /\ pc = "ret"
             /\ key \in {"y", "Y", "n", "N"}
             /\ Len(rendered) >= 1
             /\ rendered[Len(rendered)].lines
                    = PySlice(readme_lines, start, start + lines_per_page)
             /\ RenderedLines
                    = SubSeq(readme_lines, 1,
                             Min(start + lines_per_page, Len(readme_lines)))
             /\ DecisionLines(repo_ids[i]) = {Len(log)}
    /\ pc \in KeyReadPcs \cup {"dispatch"}
          => (ret = "None" /\ Len(rendered) >= 1)

\* The second item was confirmed on the last of its three pages: all of
\* its body has been shown and it has its one decision line.
DecidedAfterEveryPage ==
    /\ pc = "ret"
    /\ ret = "True"
    /\ i = 2
    /\ Len(rendered) = 3
    /\ RenderedLines = readme_lines
    /\ Len(log) = 2

\* The keys display_readme names in a branch.
NamedKeys == {"y", "Y", "n", "N", " ", CtrlC, CtrlBackslash}

\* C12: a keystroke that is none of y, Y, n, N, space, Ctrl+C and Ctrl+\
\* changes nothing but the position: same page (start), nothing printed, no
\* result, no decision line, the item and the lists as they were, no
\* exception; the next step is another key read, so this repeats for every
\* such key.
OtherKeyStaysOnPage ==
    [][ (pc = "dispatch" /\ key \in Keys \ (NamedKeys \cup {EOF}))
            => /\ pc' = "tcgetattr"
               /\ UNCHANGED <<start, rendered, ret, log, i, content,
                              readme_lines, confirmed_repos,
                              not_confirmed_repos, termMode, yaml_file,
                              returned>>
      ]_vars

\* Two unnamed keys in a row on the second page: the first one has been
\* handled, the second one has just been read, and the page is the same.
TwoOtherKeysInARow ==
    /\ pc = "finally"
    /\ ~exc
    /\ ch = KeyOther
    /\ key = KeyOther
    /\ start = lines_per_page
    /\ Len(rendered) = 2
    /\ ret = "None"

\* The entries of list that are in the set keep, in the order of list.
Restrict(list, keep) == SelectSeq(list, LAMBDA id : id \in keep)

\* Repository id was answered with 'y' or 'Y': its decision line says so.
OperatorConfirmed(id) ==
    /\ DecisionLines(id) # {}
    /\ \A q \in DecisionLines(id) : log[q][1] = "Confirmed"

\* C13: once display_and_confirm_repos has run to its end, its two lists
\* are disjoint, together hold every id of its argument once, each in the
\* order of the argument, and an id is in confirmed_repos exactly when it
\* was answered with 'y' or 'Y'; and every id of the list dry_run hands on
\* was classified likely-transformers, was found without a pull request by
\* xianbao, and was auto-confirmed by the import filter or confirmed by the
\* operator, so that no id the operator rejected is in that list.
DryRunSchedulesOnlyConfirmed ==
    /\ pc \in {"returned", "dry_done"}
          => /\ Range(confirmed_repos) \cap Range(not_confirmed_repos) = {}
             /\ Range(confirmed_repos) \cup Range(not_confirmed_repos)
                    = Range(repo_ids)
             /\ confirmed_repos = Restrict(repo_ids, Range(confirmed_repos))
             /\ not_confirmed_repos
                    = Restrict(repo_ids, Range(not_confirmed_repos))
             /\ \A id \in Range(repo_ids) :
                    id \in Range(confirmed_repos) <=> OperatorConfirmed(id)
             /\ returned = <<confirmed_repos>>
    /\ pc = "dry_done"
          => /\ \A id \in Range(processing_repos) :
                   /\ id \in Range(likely_transformers_repos)
                   /\ id \in Range(repos_without_prs)
                   /\ \/ id \in Range(repos_with_import)
                      \/ (id \in Range(repos_without_import)
                            /\ OperatorConfirmed(id))
             /\ Range(processing_repos) \cap Range(not_confirmed_repos) = {}
             /\ \A id \in Range(repos_with_import) \cup Range(confirmed_repos) :
                    id \in Range(processing_repos)
             /\ Len(processing_repos) = Cardinality(Range(processing_repos))
    /\ pc # "dry_done" => processing_repos = <<>>

\* dry_run has ended with two repositories past the filters: the first was
\* auto-confirmed and is handed on, the second was shown to the operator,
\* rejected, and is not.
AutoConfirmedKeptRejectedDropped ==
    /\ pc = "dry_done"
    /\ repos_with_import = <<1>>
    /\ repos_without_import = <<2>>
    /\ not_confirmed_repos = <<2>>
    /\ processing_repos = <<1>>

====
